---- MODULE Spec2Model ----
(***************************************************************************)
(* Role sanitization of cdp-scrapers (cdp_scrapers/utils/sanitize_roles.py *)
(* with parse_static_person.py, parse_static_file.py, str_simplified.py).  *)
(*                                                                         *)
(* Role objects live in a heap: a role list is a sequence of object ids,   *)
(* so that assignments to role.title and role.end_datetime are visible     *)
(* through every list that references the object, as in Python.            *)
(* An Optional value is <<>> for None and <<v>> for a present v.           *)
(* A str is a sequence of one-character strings.  A datetime is the        *)
(* instant it denotes, counted in days: Python compares aware datetimes    *)
(* by instant, and astimezone(pytz.utc) keeps the instant.                 *)
(***************************************************************************)
EXTENDS Integers, Sequences, FiniteSets, TLC

VARIABLES
    heap,          \* object id -> Role (title, body, start_datetime, end_datetime)
    declared,      \* object id -> the Role as it was constructed
    static_data,   \* Optional ScraperStaticData handed to every call
    scraped,       \* the caller's list of scraped roles (object ids)
    arg_before,    \* the roles of the last call's argument, as they were on entry
    arg_ids,       \* the object ids of the last call's argument
    ret,           \* the list returned by the last call (object ids)
    ret_vals,      \* the roles of ret as they were when the call returned
    prev_vals,     \* ret_vals of the call before the last one
    status,        \* "idle", "returned" or "raised" (the last call)
    ncalls,        \* number of sanitize_roles calls so far
    now,           \* datetime.today(), as an instant
    council_pres_arg,  \* council_pres_patterns of the last call
    chair_arg,         \* chair_patterns of the last call
    known_legistar_persons,  \* legistar.py: person_id -> the cached person
    known_legistar_bodies,   \* legistar.py: body_id -> the cached body
    events_calls,      \* get_legistar_events_for_timespan calls begun so far
    in_events,         \* such a call is in progress
    lookups,           \* lookups made since the call began or ended
    person_requests,   \* person_id -> request sequences since the call began
    body_requests,     \* body_id -> requests since the call began
    last_lookup        \* Optional: what the last lookup returned

role_vars == <<heap, declared, static_data, scraped, arg_before, arg_ids, ret,
               ret_vals, prev_vals, status, ncalls, now, council_pres_arg, chair_arg>>

legistar_vars == <<known_legistar_persons, known_legistar_bodies, events_calls,
                   in_events, lookups, person_requests, body_requests, last_lookup>>

vars == <<role_vars, legistar_vars>>

----------------------------------------------------------------------------
(* Bounds *)

MaxRoles == 2      \* scraped roles in the caller's list
MaxStatic == 2     \* roles in a person's entry in the static file
MaxTime == 2       \* datetimes range over 0..MaxTime
MaxCalls == 2      \* sanitize_roles calls in one behaviour
MaxRolesWithStatic == 1  \* scraped roles in the list when a static file is loaded

(* timedelta(days=1) *)
Day == 1

(* the moment of the calls; role periods lie before, around and after it *)
Today == 1

----------------------------------------------------------------------------
(* Optional *)

None == <<>>
Some(v) == <<v>>
Val(o) == o[1]

Range(s) == {s[i] : i \in 1..Len(s)}

----------------------------------------------------------------------------
(* str *)

Alphabet ==
    <<" ",
      "A","B","C","D","E","F","G","H","I","J","K","L","M",
      "N","O","P","Q","R","S","T","U","V","W","X","Y","Z",
      "a","b","c","d","e","f","g","h","i","j","k","l","m",
      "n","o","p","q","r","s","t","u","v","w","x","y","z">>

\* position of a character in code-point order
OrdOf == [c \in {Alphabet[i] : i \in 1..Len(Alphabet)} |->
             CHOOSE i \in 1..Len(Alphabet) : Alphabet[i] = c]
Ord(c) == OrdOf[c]

LowerChar(c) == IF Ord(c) \in 2..27 THEN Alphabet[Ord(c) + 26] ELSE c

\* str.lower()
lower(s) == [i \in 1..Len(s) |-> LowerChar(s[i])]

\* str < str, lexicographic by code point
RECURSIVE StrLess(_, _)
StrLess(a, b) ==
    IF b = <<>> THEN FALSE
    ELSE IF a = <<>> THEN TRUE
    ELSE IF Ord(Head(a)) # Ord(Head(b)) THEN Ord(Head(a)) < Ord(Head(b))
    ELSE StrLess(Tail(a), Tail(b))

\* pat in s
Contains(s, pat) ==
    \E i \in 0..(Len(s) - Len(pat)) : SubSeq(s, i + 1, i + Len(pat)) = pat

\* runs of spaces become one space, leading spaces are dropped
RECURSIVE CollapseSpaces(_, _)
CollapseSpaces(s, afterSpace) ==
    IF s = <<>> THEN <<>>
    ELSE IF Head(s) = " "
         THEN (IF afterSpace THEN <<>> ELSE <<" ">>) \o CollapseSpaces(Tail(s), TRUE)
         ELSE <<Head(s)>> \o CollapseSpaces(Tail(s), FALSE)

StripRight(s) ==
    IF s # <<>> /\ s[Len(s)] = " " THEN SubSeq(s, 1, Len(s) - 1) ELSE s

\* str_simplified(input_str): cleantext.clean(..., lower=False) keeps the
\* case, collapses whitespace and strips both ends
str_simplified(s) == StripRight(CollapseSpaces(s, TRUE))

\* re.search("|".join(patterns), s, re.I) is not None, for patterns without
\* regex metacharacters: the joined expression is the alternation of the
\* patterns, and of the single empty alternative when the list is empty
re_search(patterns, s) ==
    LET alts == IF patterns = <<>> THEN << <<>> >> ELSE patterns
    IN  \E k \in 1..Len(alts) : Contains(lower(s), lower(alts[k]))

----------------------------------------------------------------------------
(* RoleTitle constants of cdp_backend *)

COUNCILMEMBER == <<"C","o","u","n","c","i","l","m","e","m","b","e","r">>
COUNCILPRESIDENT ==
    <<"C","o","u","n","c","i","l"," ","P","r","e","s","i","d","e","n","t">>
CHAIR == <<"C","h","a","i","r">>
VICE_CHAIR == <<"V","i","c","e"," ","C","h","a","i","r">>
ALTERNATE == <<"A","l","t","e","r","n","a","t","e">>
SUPERVISOR == <<"S","u","p","e","r","v","i","s","o","r">>
MEMBER == <<"M","e","m","b","e","r">>

\* get_all_class_attr_values(RoleTitle)
role_titles ==
    {COUNCILMEMBER, COUNCILPRESIDENT, CHAIR, VICE_CHAIR, ALTERNATE,
     SUPERVISOR, MEMBER}

\* default arguments of sanitize_roles
council_pres_patterns ==
    << <<"c","h","a","i","r">>, <<"p","r","e","s">>, <<"s","u","p","e","r">> >>
chair_patterns == << <<"c","h","a","i","r">>, <<"p","r","e","s">> >>

default_primary_body_names ==
    { <<"c","i","t","y"," ","c","o","u","n","c","i","l">>,
      <<"c","o","u","n","c","i","l"," ","b","r","i","e","f","i","n","g">> }

----------------------------------------------------------------------------
(* sanitize_roles *)

\* primary_body_names: the lower-cased keys of static_data.primary_bodies,
\* or the two defaults when there is no static data or no primary body
primary_body_names(sd) ==
    IF sd = None \/ DOMAIN Val(sd).primary_bodies = {}
    THEN default_primary_body_names
    ELSE {lower(body_name) : body_name \in DOMAIN Val(sd).primary_bodies}

\* have_primary_roles: len(static_data.persons[person_name].seat.roles) > 0,
\* False on KeyError, AttributeError and TypeError
have_primary_roles(sd, person_name) ==
    IF sd = None THEN FALSE
    ELSE IF person_name \notin DOMAIN Val(sd).persons THEN FALSE
    ELSE LET seat == Val(sd).persons[person_name].seat
         IN  IF seat = None THEN FALSE
             ELSE IF Val(seat).roles = None THEN FALSE
             ELSE Len(Val(Val(seat).roles)) > 0

\* static_data.persons[person_name].seat.roles
seat_roles(sd, person_name) == Val(Val(Val(sd).persons[person_name].seat).roles)

\* one iteration of the loop over the static roles: "True" returns True,
\* "False" goes on to the next static role, "TypeError" is the comparison
\* of None with a datetime
static_role_covers(static_role, role) ==
    IF static_role.start_datetime = None THEN "TypeError"
    ELSE IF ~(Val(static_role.start_datetime) <= Val(role.start_datetime))
    THEN "False"
    ELSE IF static_role.end_datetime = None THEN "TypeError"
    ELSE IF Val(role.end_datetime) <= Val(static_role.end_datetime)
    THEN "True"
    ELSE "False"

RECURSIVE coincides_with_static(_, _, _)
coincides_with_static(h, static_ids, role) ==
    IF static_ids = <<>> THEN "False"
    ELSE LET step == static_role_covers(h[Head(static_ids)], role)
         IN  IF step = "False"
             THEN coincides_with_static(h, Tail(static_ids), role)
             ELSE step

\* is_current with the end of the period excluded
is_current_end_excluded(role, today) ==
    Val(role.start_datetime) <= today /\ today < Val(role.end_datetime)

\* the test on the current moment, when there are no roles in static data
is_current(role, today) ==
    Val(role.start_datetime) <= today /\ today <= Val(role.end_datetime)

\* _is_role_period_ok(role): "True", "False" or "TypeError"
is_role_period_ok(h, sd, person_name, today, role) ==
    IF role.start_datetime = None \/ role.end_datetime = None THEN "False"
    ELSE IF ~have_primary_roles(sd, person_name)
    THEN (IF is_current(role, today) THEN "True" ELSE "False")
    ELSE coincides_with_static(h, seat_roles(sd, person_name), role)

\* _is_primary_body(role)
is_primary_body(sd, role) ==
    /\ role.body # None
    /\ Val(role.body).name # None
    /\ lower(str_simplified(Val(Val(role.body).name))) \in primary_body_names(sd)

\* _fix_primary_title(role)
fix_primary_title(role, pres_patterns) ==
    IF role.title = None \/ ~re_search(pres_patterns, str_simplified(Val(role.title)))
    THEN COUNCILMEMBER
    ELSE COUNCILPRESIDENT

\* _fix_nonprimary_title(role)
fix_nonprimary_title(role, ch_patterns) ==
    IF role.title = None THEN MEMBER
    ELSE LET role_title == lower(str_simplified(Val(role.title)))
         IN  IF Contains(role_title, <<"v","i","c","e">>) THEN VICE_CHAIR
             ELSE IF Contains(role_title, <<"a","l","t">>) THEN ALTERNATE
             ELSE IF Contains(role_title, <<"s","u","p","e","r">>) THEN SUPERVISOR
             ELSE IF re_search(ch_patterns, role_title) THEN CHAIR
             ELSE MEMBER

\* the title a role of the filtered list is given
standard_title(sd, role, pres_patterns, ch_patterns) ==
    IF is_primary_body(sd, role)
    THEN fix_primary_title(role, pres_patterns)
    ELSE fix_nonprimary_title(role, ch_patterns)

\* _is_councilmember_term(role)
is_councilmember_term(role) ==
    /\ role.title = Some(COUNCILMEMBER)
    /\ role.start_datetime # None
    /\ role.end_datetime # None

\* the sort key (role.body.name, role.start_datetime, role.end_datetime),
\* compared as Python compares tuples
key_less(a, b) ==
    LET an == Val(Val(a.body).name)
        bn == Val(Val(b.body).name)
    IN  IF an # bn THEN StrLess(an, bn)
        ELSE IF Val(a.start_datetime) # Val(b.start_datetime)
        THEN Val(a.start_datetime) < Val(b.start_datetime)
        ELSE Val(a.end_datetime) < Val(b.end_datetime)

\* sorted(ids, key=...): stable, an element goes after the equal keys
\* that precede it in ids
RECURSIVE sorted_roles(_, _)
sorted_roles(h, ids) ==
    IF ids = <<>> THEN <<>>
    ELSE LET front == sorted_roles(h, SubSeq(ids, 1, Len(ids) - 1))
             x == ids[Len(ids)]
             n == Cardinality({i \in 1..Len(front) : ~key_less(h[x], h[front[i]])})
         IN  SubSeq(front, 1, n) \o <<x>> \o SubSeq(front, n + 1, Len(front))

\* groupby(ids, key=role.body.name): the runs of consecutive equal names
RECURSIVE group_by_body(_, _)
group_by_body(h, ids) ==
    IF ids = <<>> THEN <<>>
    ELSE LET rest == group_by_body(h, Tail(ids))
         IN  IF rest # <<>> /\ Val(h[Head(rest[1])].body).name = Val(h[Head(ids)].body).name
             THEN << <<Head(ids)>> \o rest[1] >> \o Tail(rest)
             ELSE << <<Head(ids)>> >> \o rest

\* roles.index(prev_role): the first element equal (==, by value) to it
index_of(h, roles, prev_id) ==
    CHOOSE j \in 1..Len(roles) :
        /\ h[roles[j]] = h[prev_id]
        /\ \A k \in 1..(j - 1) : h[roles[k]] # h[prev_id]

\* end_before without the day taken off
end_at_start(h, roles, prev_id, this_id) ==
    [h EXCEPT ![roles[index_of(h, roles, prev_id)]].end_datetime =
                  Some(Val(h[this_id].start_datetime))]

\* roles[roles.index(prev_role)].end_datetime = this_role.start_datetime - timedelta(days=1)
end_before(h, roles, prev_id, this_id) ==
    [h EXCEPT ![roles[index_of(h, roles, prev_id)]].end_datetime =
                  Some(Val(h[this_id].start_datetime) - Day)]

\* overlaps with the two ends compared
overlaps_by_end(prev_role, this_role) ==
    Val(prev_role.end_datetime) > Val(this_role.end_datetime)

\* the condition under which member role i is ended before member role j
overlaps(prev_role, this_role) ==
    Val(prev_role.end_datetime) > Val(this_role.start_datetime)

\* the inner loop over one body's roles, from index i on
RECURSIVE sweep_body(_, _, _, _)
sweep_body(h, roles, roles_for_body, i) ==
    IF i > Len(roles_for_body) THEN h
    ELSE LET prev_id == roles_for_body[i - 1]
             this_id == roles_for_body[i]
         IN  IF overlaps(h[prev_id], h[this_id])
             THEN sweep_body(end_before(h, roles, prev_id, this_id), roles, roles_for_body, i + 1)
             ELSE sweep_body(h, roles, roles_for_body, i + 1)

\* the outer loop over scraped_member_roles_by_body
RECURSIVE sweep_all(_, _, _)
sweep_all(h, roles, by_body) ==
    IF by_body = <<>> THEN h
    ELSE sweep_all(sweep_body(h, roles, Head(by_body), 2), roles, Tail(by_body))

\* the roles grouped for the overlap check: the scraped councilmember terms
\* sorted from old to new and grouped by body name
scraped_member_roles_by_body(h, sd, person_name, roles) ==
    group_by_body(h,
        sorted_roles(h,
            SelectSeq(roles,
                LAMBDA id : ~have_primary_roles(sd, person_name)
                            /\ is_councilmember_term(h[id]))))

\* the roles that survive the period test and the primary-body test
kept_roles(h, sd, person_name, today, roles) ==
    SelectSeq(roles,
        LAMBDA id :
            /\ is_role_period_ok(h, sd, person_name, today, h[id]) = "True"
            /\ ~(have_primary_roles(sd, person_name) /\ is_primary_body(sd, h[id])))

\* the standardized titles written into the kept roles
with_titles(h, sd, kept, pres_patterns, ch_patterns) ==
    [id \in DOMAIN h |->
        IF id \in Range(kept)
        THEN [h[id] EXCEPT !.title =
                  Some(standard_title(sd, h[id], pres_patterns, ch_patterns))]
        ELSE h[id]]

\* sanitize_roles(person_name, roles, static_data, council_pres_patterns,
\* chair_patterns) on heap h: whether it raised, the heap it leaves and the
\* list it returns
sanitize_roles(h, person_name, roles, sd, pres_patterns, ch_patterns, today) ==
    IF \E i \in 1..Len(roles) :
           is_role_period_ok(h, sd, person_name, today, h[roles[i]]) = "TypeError"
    THEN [raised |-> TRUE, heap |-> h, roles |-> <<>>]
    ELSE LET kept == kept_roles(h, sd, person_name, today, roles)
             h1 == with_titles(h, sd, kept, pres_patterns, ch_patterns)
             by_body == scraped_member_roles_by_body(h1, sd, person_name, kept)
             out == IF have_primary_roles(sd, person_name)
                    THEN kept \o seat_roles(sd, person_name)
                    ELSE kept
         IN  [raised |-> FALSE, heap |-> sweep_all(h1, out, by_body), roles |-> out]

----------------------------------------------------------------------------
(* parse_static_file, parse_static_person *)

\* parse_static_role without the test of the title
parse_static_role_any_title(h, seat_roles_, role_json, primary_bodies) ==
    IF role_json.body_is_str /\ role_json.body \notin DOMAIN primary_bodies
    THEN [heap |-> h, roles |-> seat_roles_]
    ELSE LET role == [title |-> Some(role_json.title),
                      body |-> IF role_json.body_is_str
                               THEN Some(primary_bodies[role_json.body])
                               ELSE Some([name |-> Some(role_json.body)]),
                      start_datetime |-> role_json.start_datetime,
                      end_datetime |-> role_json.end_datetime]
             id == Len(h) + 1
         IN  [heap |-> Append(h, role),
              roles |-> IF seat_roles_ = None
                        THEN Some(<<id>>)
                        ELSE Some(Append(Val(seat_roles_), id))]

\* one role of person_json["roles"] read into heap h: the heap and the
\* seat's roles (an Optional list) after it.  role_json.body is a str, looked
\* up in primary_bodies, or a dict that defines a body of its own
parse_static_role(h, seat_roles_, role_json, primary_bodies) ==
    IF role_json.body_is_str /\ role_json.body \notin DOMAIN primary_bodies
    THEN [heap |-> h, roles |-> seat_roles_]
    ELSE IF role_json.title \notin role_titles
    THEN [heap |-> h, roles |-> seat_roles_]
    ELSE LET role == [title |-> Some(role_json.title),
                      body |-> IF role_json.body_is_str
                               THEN Some(primary_bodies[role_json.body])
                               ELSE Some([name |-> Some(role_json.body)]),
                      start_datetime |-> role_json.start_datetime,
                      end_datetime |-> role_json.end_datetime]
             id == Len(h) + 1
         IN  [heap |-> Append(h, role),
              roles |-> IF seat_roles_ = None
                        THEN Some(<<id>>)
                        ELSE Some(Append(Val(seat_roles_), id))]

\* the loop over person_json["roles"]
RECURSIVE parse_static_roles(_, _, _, _)
parse_static_roles(h, seat_roles_, roles_json, primary_bodies) ==
    IF roles_json = <<>> THEN [heap |-> h, roles |-> seat_roles_]
    ELSE LET one == parse_static_role(h, seat_roles_, Head(roles_json), primary_bodies)
         IN  parse_static_roles(one.heap, one.roles, Tail(roles_json), primary_bodies)

\* parse_static_person(person_json, all_seats, primary_bodies): the heap and
\* the Person
parse_static_person(h, person_json, all_seats, primary_bodies) ==
    IF person_json.seat = None
    THEN [heap |-> h, person |-> [seat |-> None]]
    ELSE IF Val(person_json.seat) \notin DOMAIN all_seats
    THEN [heap |-> h, person |-> [seat |-> None]]
    ELSE LET seat == all_seats[Val(person_json.seat)]
         IN  IF person_json.roles = None
             THEN [heap |-> h, person |-> [seat |-> Some(seat)]]
             ELSE LET got == parse_static_roles(h, seat.roles,
                                                Val(person_json.roles), primary_bodies)
                  IN  [heap |-> got.heap,
                       person |-> [seat |-> Some([roles |-> got.roles])]]

\* the one person the model sanitizes
PersonName == "P"

\* parse_static_file(file_path) for a file with at most the person
\* PersonName: the heap and the ScraperStaticData
parse_static_file(h, static_json) ==
    LET primary_bodies ==
            [body_name \in static_json.primary_bodies |-> [name |-> Some(body_name)]]
    IN  IF static_json.person = None
        THEN [heap |-> h,
              data |-> [primary_bodies |-> primary_bodies,
                        persons |-> [n \in {} |-> n]]]
        ELSE LET got == parse_static_person(h, Val(static_json.person),
                                            static_json.seats, primary_bodies)
             IN  [heap |-> got.heap,
                  data |-> [primary_bodies |-> primary_bodies,
                            persons |-> [n \in {PersonName} |-> got.person]]]

----------------------------------------------------------------------------
(* legistar.py: get_legistar_body, get_legistar_person and their caches *)

\* the ids the Legistar API uses for bodies and for persons
BodyIds == {1, 2}
PersonIds == {1, 2}

\* dict.clear() left undone
not_cleared(known) == known

\* dict.clear()
clear(known) == <<>>

\* known[key] = value
put(known, key, value) ==
    [k \in DOMAIN known \cup {key} |-> IF k = key THEN value ELSE known[k]]

\* get_legistar_body(client, body_id, use_cache) when the API answers with
\* response (None: a status other than 200; Some(json) otherwise): the cache
\* after it, the body returned and the number of requests made.  A value
\* carries, beside its json, the number of the events query during which it
\* was fetched (0: outside of any), which is bookkeeping of the model
get_legistar_body(known_bodies, body_id, use_cache, response, query) ==
    IF use_cache /\ body_id \in DOMAIN known_bodies
    THEN [known_bodies |-> known_bodies, body |-> known_bodies[body_id],
          requests |-> [b \in BodyIds |-> 0]]
    ELSE LET body == [json |-> response, fetched_in |-> query]
         IN  [known_bodies |-> IF use_cache THEN put(known_bodies, body_id, body)
                               ELSE known_bodies,
              body |-> body,
              requests |-> [b \in BodyIds |-> IF b = body_id THEN 1 ELSE 0]]

\* the loop over office_records of get_legistar_person: the body of each
\* record is looked up; body_responses[b] is the API's answer for body b
RECURSIVE office_record_bodies(_, _, _, _, _)
office_record_bodies(known_bodies, office_records, use_cache, body_responses, query) ==
    IF office_records = <<>>
    THEN [known_bodies |-> known_bodies, records |-> <<>>,
          requests |-> [b \in BodyIds |-> 0]]
    ELSE LET one == get_legistar_body(known_bodies, Head(office_records), use_cache,
                                      body_responses[Head(office_records)], query)
             rest == office_record_bodies(one.known_bodies, Tail(office_records),
                                          use_cache, body_responses, query)
         IN  [known_bodies |-> rest.known_bodies,
              records |-> <<one.body>> \o rest.records,
              requests |-> [b \in BodyIds |-> one.requests[b] + rest.requests[b]]]

\* get_legistar_person(client, person_id, use_cache): person_response is
\* the answer to the request for the person, records_response the answer to
\* the request for the OfficeRecords (the body ids of the records)
get_legistar_person(known_persons, known_bodies, person_id, use_cache, person_response, records_response, body_responses, query) ==
    IF use_cache /\ person_id \in DOMAIN known_persons
    THEN [known_persons |-> known_persons, known_bodies |-> known_bodies,
          person |-> known_persons[person_id],
          requests |-> 0, body_requests |-> [b \in BodyIds |-> 0]]
    ELSE IF person_response = None
    THEN LET person == [json |-> None, roles |-> None, fetched_in |-> query]
         IN  [known_persons |-> IF use_cache THEN put(known_persons, person_id, person)
                                ELSE known_persons,
              known_bodies |-> known_bodies,
              person |-> person,
              requests |-> 1, body_requests |-> [b \in BodyIds |-> 0]]
    ELSE IF records_response = None
    THEN LET person == [json |-> person_response, roles |-> None, fetched_in |-> query]
         IN  [known_persons |-> IF use_cache THEN put(known_persons, person_id, person)
                                ELSE known_persons,
              known_bodies |-> known_bodies,
              person |-> person,
              requests |-> 1, body_requests |-> [b \in BodyIds |-> 0]]
    ELSE LET got == office_record_bodies(known_bodies, Val(records_response),
                                         use_cache, body_responses, query)
             person == [json |-> person_response, roles |-> Some(got.records),
                        fetched_in |-> query]
         IN  [known_persons |-> IF use_cache THEN put(known_persons, person_id, person)
                                ELSE known_persons,
              known_bodies |-> got.known_bodies,
              person |-> person,
              requests |-> 1, body_requests |-> got.requests]

----------------------------------------------------------------------------
(* The inputs *)

CityCouncil == <<"C","i","t","y"," ","C","o","u","n","c","i","l">>
\* the same name as a page gives it, with a trailing space
CityCouncilSp == <<"C","i","t","y"," ","C","o","u","n","c","i","l"," ">>
Transportation == <<"T","r","a","n","s","p","o","r","t","a","t","i","o","n">>
Mayor == <<"M","a","y","o","r">>

SeqsUpTo(S, n) == UNION {[1..k -> S] : k \in 0..n}

OptTimes == {None} \cup {Some(t) : t \in 0..MaxTime}

\* the roles a scraper hands over
ScrapedRoles ==
    [title : {None, Some(COUNCILPRESIDENT)},
     body : {Some([name |-> Some(n)]) : n \in {CityCouncil, CityCouncilSp, Transportation}},
     start_datetime : OptTimes,
     end_datetime : OptTimes]

\* the entries of person_json["roles"] in a static file
RoleJsons ==
    [title : {COUNCILMEMBER, Mayor},
     body_is_str : BOOLEAN,
     body : {CityCouncil, CityCouncilSp, Transportation},
     start_datetime : {None, Some(0)},
     end_datetime : {Some(MaxTime)}]

\* top-level "seats" of a static file
AllSeats ==
    [n \in {"Position 1", "Position 2"} |->
        IF n = "Position 1" THEN [roles |-> None] ELSE [roles |-> Some(<<>>)]]

PersonJsons ==
    [seat : {None, Some("Position 1"), Some("Position 2"), Some("Position 9")},
     roles : {None} \cup {Some(rs) : rs \in SeqsUpTo(RoleJsons, MaxStatic)}]

StaticJsons ==
    [primary_bodies : {{CityCouncil}, {CityCouncilSp}},
     seats : {AllSeats},
     person : {None} \cup {Some(pj) : pj \in PersonJsons}]

----------------------------------------------------------------------------
(* The machine *)

Init ==
    /\ heap = <<>>
    /\ declared = <<>>
    /\ static_data = None
    /\ scraped = <<>>
    /\ arg_before = <<>>
    /\ arg_ids = <<>>
    /\ ret = <<>>
    /\ ret_vals = <<>>
    /\ prev_vals = <<>>
    /\ status = "idle"
    /\ ncalls = 0
    /\ now = Today
    /\ council_pres_arg = council_pres_patterns
    /\ chair_arg = chair_patterns
    /\ known_legistar_persons = <<>>
    /\ known_legistar_bodies = <<>>
    /\ events_calls = 0
    /\ in_events = FALSE
    /\ lookups = 0
    /\ person_requests = [person_id \in PersonIds |-> 0]
    /\ body_requests = [body_id \in BodyIds |-> 0]
    /\ last_lookup = None

\* the scraper is constructed with a static file
LoadStatic(static_json) ==
    /\ static_data = None
    /\ heap = <<>>
    /\ ncalls = 0
    /\ LET got == parse_static_file(heap, static_json)
       IN  /\ heap' = got.heap
           /\ declared' = got.heap
           /\ static_data' = Some(got.data)
    /\ UNCHANGED <<scraped, arg_before, arg_ids, ret, ret_vals, prev_vals,
                   status, ncalls, now, council_pres_arg, chair_arg>>
    /\ UNCHANGED legistar_vars

\* the scraper builds one more Role of the person
Scrape(role) ==
    /\ ncalls = 0
    /\ Len(scraped) < (IF static_data = None THEN MaxRoles ELSE MaxRolesWithStatic)
    /\ heap' = Append(heap, role)
    /\ declared' = Append(declared, role)
    /\ scraped' = Append(scraped, Len(heap) + 1)
    /\ UNCHANGED <<static_data, arg_before, arg_ids, ret, ret_vals, prev_vals,
                   status, ncalls, now, council_pres_arg, chair_arg>>
    /\ UNCHANGED legistar_vars

\* one call sanitize_roles(PersonName, roles, static_data, pres_patterns,
\* ch_patterns)
Call(roles, pres_patterns, ch_patterns) ==
    LET r == sanitize_roles(heap, PersonName, roles, static_data,
                            pres_patterns, ch_patterns, now)
    IN  /\ heap' = r.heap
        /\ council_pres_arg' = pres_patterns
        /\ chair_arg' = ch_patterns
        /\ arg_ids' = roles
        /\ arg_before' = [i \in 1..Len(roles) |-> heap[roles[i]]]
        /\ ret' = r.roles
        /\ ret_vals' = [i \in 1..Len(r.roles) |-> r.heap[r.roles[i]]]
        /\ prev_vals' = ret_vals
        /\ status' = IF r.raised THEN "raised" ELSE "returned"
        /\ ncalls' = ncalls + 1
        /\ UNCHANGED <<declared, static_data, scraped, now>>
        /\ UNCHANGED legistar_vars

\* the scraped roles are sanitized
Sanitize ==
    /\ ncalls = 0
    /\ Call(scraped, council_pres_patterns, chair_patterns)

\* the returned list is sanitized again
SanitizeAgain ==
    /\ ncalls \in 1..(MaxCalls - 1)
    /\ status = "returned"
    /\ Call(ret, council_pres_patterns, chair_patterns)

Next ==
    \/ \E static_json \in StaticJsons : LoadStatic(static_json)
    \/ \E role \in ScrapedRoles : Scrape(role)
    \/ Sanitize
    \/ SanitizeAgain

Spec == Init /\ [][Next]_vars

----------------------------------------------------------------------------
(* The title classifier: calls with titles and pattern lists of all kinds *)

MaxTitled == 1     \* scraped roles in the list of a call with given patterns

ViceChairTitle == <<"V","i","c","e"," ","C","h","a","i","r">>
ViceAlternateTitle == <<"V","i","c","e"," ","A","l","t","e","r","n","a","t","e">>
AltSupervisorTitle == <<"A","l","t"," ","S","u","p","e","r","v","i","s","o","r">>
SuperChairTitle == <<"S","u","p","e","r"," ","C","h","a","i","r">>
PresidentTitle == <<"P","r","e","s","i","d","e","n","t">>
\* a title as a page gives it: upper case, repeated and trailing spaces
LoudChairTitle == <<"C","o"," "," ","C","H","A","I","R"," ">>

ScrapedTitles ==
    {ViceChairTitle, ViceAlternateTitle, AltSupervisorTitle, SuperChairTitle,
     PresidentTitle, LoudChairTitle, Mayor, MEMBER}

\* roles in office at every moment of 0..MaxTime, with every kind of title
\* and of body
TitledRoles ==
    [title : {None} \cup {Some(t) : t \in ScrapedTitles},
     body : {None, Some([name |-> None])}
            \cup {Some([name |-> Some(n)]) : n \in {CityCouncil, Transportation}},
     start_datetime : {Some(0)},
     end_datetime : {Some(MaxTime)}]

\* the pattern lists a caller gives: none, the two defaults, one of its own,
\* one in upper case
PatternLists ==
    { <<>>, council_pres_patterns, chair_patterns,
      << <<"m","a","y","o","r">> >>, << <<"C","H","A","I","R">> >> }

ScrapeTitled(role) ==
    /\ ncalls = 0
    /\ static_data = None
    /\ Len(scraped) < MaxTitled
    /\ heap' = Append(heap, role)
    /\ declared' = Append(declared, role)
    /\ scraped' = Append(scraped, Len(heap) + 1)
    /\ UNCHANGED <<static_data, arg_before, arg_ids, ret, ret_vals, prev_vals,
                   status, ncalls, now, council_pres_arg, chair_arg>>
    /\ UNCHANGED legistar_vars

\* the scraped roles are sanitized with pattern lists of the caller
SanitizeWith(pres_patterns, ch_patterns) ==
    /\ ncalls = 0
    /\ Call(scraped, pres_patterns, ch_patterns)

TitleNext ==
    \/ \E role \in TitledRoles : ScrapeTitled(role)
    \/ \E pres_patterns \in PatternLists, ch_patterns \in PatternLists :
           SanitizeWith(pres_patterns, ch_patterns)

TitleSpec == Init /\ [][TitleNext]_vars

----------------------------------------------------------------------------
(* The Legistar lookups of events queries and of other callers *)

MaxQueries == 2    \* get_legistar_events_for_timespan calls in one behaviour
MaxLookups == 2    \* lookups during one such call
MaxDirect == 1     \* lookups of other callers between two such calls
MaxRecords == 2    \* OfficeRecords of a person

\* what the API answers to a request: a status other than 200, or json
Responses == {None, Some("json")}

\* the answer to the request for a person's OfficeRecords: the body ids
RecordsResponses == {None} \cup {Some(rs) : rs \in SeqsUpTo(BodyIds, MaxRecords)}

\* the numbers of the events queries during which the parts of a returned
\* body or person were fetched
fetched_in_body(body) == {body.fetched_in}
fetched_in_person(person) ==
    {person.fetched_in}
    \cup (IF person.roles = None THEN {}
          ELSE {Val(person.roles)[i].fetched_in : i \in 1..Len(Val(person.roles))})

\* get_legistar_events_for_timespan begins: both caches are cleared
EventsBegin ==
    /\ ~in_events
    /\ events_calls < MaxQueries
    /\ known_legistar_persons' = clear(known_legistar_persons)
    /\ known_legistar_bodies' = clear(known_legistar_bodies)
    /\ events_calls' = events_calls + 1
    /\ in_events' = TRUE
    /\ lookups' = 0
    /\ person_requests' = [person_id \in PersonIds |-> 0]
    /\ body_requests' = [body_id \in BodyIds |-> 0]
    /\ last_lookup' = None
    /\ UNCHANGED role_vars

\* the body of an event is looked up
EventBody(body_id, response) ==
    /\ in_events
    /\ lookups < MaxLookups
    /\ LET r == get_legistar_body(known_legistar_bodies, body_id, TRUE,
                                  response, events_calls)
       IN  /\ known_legistar_bodies' = r.known_bodies
           /\ body_requests' = [b \in BodyIds |-> body_requests[b] + r.requests[b]]
           /\ last_lookup' = Some([json |-> r.body.json,
                                   fetched_in |-> fetched_in_body(r.body),
                                   cached |-> r.requests[body_id] = 0])
    /\ lookups' = lookups + 1
    /\ UNCHANGED <<known_legistar_persons, events_calls, in_events, person_requests>>
    /\ UNCHANGED role_vars

\* the person of a vote or of a sponsor is looked up
VotePerson(person_id, person_response, records_response, body_responses) ==
    /\ in_events
    /\ lookups < MaxLookups
    /\ LET r == get_legistar_person(known_legistar_persons, known_legistar_bodies,
                                    person_id, TRUE, person_response,
                                    records_response, body_responses, events_calls)
       IN  /\ known_legistar_persons' = r.known_persons
           /\ known_legistar_bodies' = r.known_bodies
           /\ person_requests' = [person_requests EXCEPT ![person_id] = @ + r.requests]
           /\ body_requests' = [b \in BodyIds |-> body_requests[b] + r.body_requests[b]]
           /\ last_lookup' = Some([json |-> r.person.json,
                                   fetched_in |-> fetched_in_person(r.person),
                                   cached |-> r.requests = 0])
    /\ lookups' = lookups + 1
    /\ UNCHANGED <<events_calls, in_events>>
    /\ UNCHANGED role_vars

\* get_legistar_events_for_timespan returns, or a request of it raises
EventsEnd ==
    /\ in_events
    /\ in_events' = FALSE
    /\ lookups' = 0
    /\ UNCHANGED <<known_legistar_persons, known_legistar_bodies, events_calls,
                   person_requests, body_requests, last_lookup>>
    /\ UNCHANGED role_vars

\* another caller looks a body up, outside of an events query
GetBody(body_id, use_cache, response) ==
    /\ ~in_events
    /\ lookups < MaxDirect
    /\ LET r == get_legistar_body(known_legistar_bodies, body_id, use_cache,
                                  response, 0)
       IN  /\ known_legistar_bodies' = r.known_bodies
           /\ last_lookup' = Some([json |-> r.body.json,
                                   fetched_in |-> fetched_in_body(r.body),
                                   cached |-> r.requests[body_id] = 0])
    /\ lookups' = lookups + 1
    /\ UNCHANGED <<known_legistar_persons, events_calls, in_events,
                   person_requests, body_requests>>
    /\ UNCHANGED role_vars

\* another caller looks a person up, outside of an events query
GetPerson(person_id, use_cache, person_response, records_response, body_responses) ==
    /\ ~in_events
    /\ lookups < MaxDirect
    /\ LET r == get_legistar_person(known_legistar_persons, known_legistar_bodies,
                                    person_id, use_cache, person_response,
                                    records_response, body_responses, 0)
       IN  /\ known_legistar_persons' = r.known_persons
           /\ known_legistar_bodies' = r.known_bodies
           /\ last_lookup' = Some([json |-> r.person.json,
                                   fetched_in |-> fetched_in_person(r.person),
                                   cached |-> r.requests = 0])
    /\ lookups' = lookups + 1
    /\ UNCHANGED <<events_calls, in_events, person_requests, body_requests>>
    /\ UNCHANGED role_vars

LegistarNext ==
    \/ EventsBegin
    \/ \E body_id \in BodyIds, response \in Responses : EventBody(body_id, response)
    \/ \E person_id \in PersonIds, person_response \in Responses,
          records_response \in RecordsResponses,
          body_responses \in [BodyIds -> Responses] :
           VotePerson(person_id, person_response, records_response, body_responses)
    \/ EventsEnd
    \/ \E body_id \in BodyIds, use_cache \in BOOLEAN, response \in Responses :
           GetBody(body_id, use_cache, response)
    \/ \E person_id \in PersonIds, use_cache \in BOOLEAN,
          person_response \in Responses, records_response \in RecordsResponses,
          body_responses \in [BodyIds -> Responses] :
           GetPerson(person_id, use_cache, person_response, records_response,
                     body_responses)

LegistarSpec == Init /\ [][LegistarNext]_vars

----------------------------------------------------------------------------
(* Vocabulary of the properties *)

Returned == status = "returned"
HavePrimaryRoles == have_primary_roles(static_data, PersonName)

\* the Role objects parse_static_file built, and the person's static roles
StaticObjects == DOMAIN heap \ Range(scraped)
StaticRoleIds == IF HavePrimaryRoles THEN Range(seat_roles(static_data, PersonName)) ELSE {}

\* roles of the returned list that come from scraping
ScrapedOutput == Range(ret) \cap Range(scraped)

HasPeriod(role) == role.start_datetime # None /\ role.end_datetime # None
Start(role) == Val(role.start_datetime)
End(role) == Val(role.end_datetime)

\* the role with this id as it was when the last call was entered
Before(id) == arg_before[CHOOSE i \in 1..Len(arg_ids) : arg_ids[i] = id]

\* a body's name, whitespace-simplified and lower-cased
SimpleName(role) == lower(str_simplified(Val(Val(role.body).name)))

\* [start, end) of two roles intersect
PeriodsOverlap(a, b) == Start(a) < End(b) /\ Start(b) < End(a)

ScrapedCouncilmembers == {id \in ScrapedOutput : heap[id].title = Some(COUNCILMEMBER)}

----------------------------------------------------------------------------
(* C1 *)

\* C1: sanitizing the list a call returned (same person, same static data,
\* same moment) returns the same roles again: same titles, starts and ends.
C1_Idempotent ==
    ncalls >= 2 => (Returned /\ ret_vals = prev_vals)

----------------------------------------------------------------------------
(* C2 *)

\* C2: no two scraped Councilmember roles of the output whose bodies have
\* the same whitespace-simplified, lower-cased name have overlapping
\* [start, end) periods.
C2_NoOverlapPerSimplifiedBody ==
    Returned =>
        \A a, b \in ScrapedCouncilmembers :
            (a # b /\ HasPeriod(heap[a]) /\ HasPeriod(heap[b])
                   /\ SimpleName(heap[a]) = SimpleName(heap[b]))
            => ~PeriodsOverlap(heap[a], heap[b])

----------------------------------------------------------------------------
(* C3 *)

\* C3 as stated: any two scraped output roles of the same body, whatever
\* their titles, with r1.start < r2.start satisfy r1.end <= r2.start.
C3_NoOverlapAnyTitle ==
    Returned =>
        \A a, b \in ScrapedOutput :
            (heap[a].body = heap[b].body /\ Start(heap[a]) < Start(heap[b]))
            => End(heap[a]) <= Start(heap[b])

\* the scraped Councilmember roles of a's body that the sort puts after a
LaterMembers(a) ==
    {b \in ScrapedCouncilmembers \ {a} :
        /\ heap[b].body = heap[a].body
        /\ \/ Start(heap[b]) > Start(heap[a])
           \/ Start(heap[b]) = Start(heap[a]) /\ End(Before(b)) > End(Before(a))
           \/ /\ Start(heap[b]) = Start(heap[a])
              /\ End(Before(b)) = End(Before(a))
              /\ \E i, j \in 1..Len(arg_ids) : i < j /\ arg_ids[i] = a /\ arg_ids[j] = b}

NextStart(a) ==
    CHOOSE t \in {Start(heap[b]) : b \in LaterMembers(a)} :
        \A b \in LaterMembers(a) : t <= Start(heap[b])

\* C3 amended: any two scraped output roles titled Councilmember with the
\* same body (name) and r1.start < r2.start satisfy r1.end <= r2.start; a
\* Councilmember role that overlaps the next Councilmember role of its body
\* ends at that role's start minus one day, and no other role's period is
\* changed.
C3_NoOverlapCouncilmembers ==
    Returned =>
        /\ \A a, b \in ScrapedCouncilmembers :
              (heap[a].body = heap[b].body /\ Start(heap[a]) < Start(heap[b]))
              => End(heap[a]) <= Start(heap[b])
        /\ \A a \in ScrapedCouncilmembers :
              End(heap[a]) =
                  IF LaterMembers(a) # {} /\ End(Before(a)) > NextStart(a)
                  THEN NextStart(a) - Day
                  ELSE End(Before(a))
        /\ \A id \in (Range(ret) \cap Range(arg_ids)) \ ScrapedCouncilmembers :
              /\ heap[id].start_datetime = Before(id).start_datetime
              /\ heap[id].end_datetime = Before(id).end_datetime

\* a Councilmember role was cut short before the next one of its body
C3_Witness ==
    /\ Returned
    /\ \E a, b \in ScrapedCouncilmembers :
          /\ heap[a].body = heap[b].body
          /\ Start(heap[a]) < Start(heap[b])
          /\ End(Before(a)) > Start(heap[b])
          /\ End(heap[a]) = Start(heap[b]) - Day

----------------------------------------------------------------------------
(* C4 *)

\* the Body values of static_data.primary_bodies
PrimaryBodies ==
    IF static_data = None THEN {}
    ELSE {Val(static_data).primary_bodies[k] : k \in DOMAIN Val(static_data).primary_bodies}

\* C4: when the person has static roles, every output role whose body is
\* one of static_data.primary_bodies is one of the person's static roles.
C4_StaticAuthority ==
    (Returned /\ HavePrimaryRoles) =>
        \A id \in Range(ret) :
            (heap[id].body # None /\ Val(heap[id].body) \in PrimaryBodies)
            => id \in StaticRoleIds

----------------------------------------------------------------------------
(* C5 *)

\* C5: no role of the output, scraped or static, lacks its start_datetime
\* or its end_datetime.
C5_NoMissingPeriod ==
    Returned => \A id \in Range(ret) : HasPeriod(heap[id])

----------------------------------------------------------------------------
(* C6 *)

----------------------------------------------------------------------------
(* C7 *)

\* C7: after a call every role of the argument list has the title, start
\* and end it had on entry.
C7_InputNotMutated ==
    status # "idle" =>
        \A i \in 1..Len(arg_ids) : heap[arg_ids[i]] = arg_before[i]

----------------------------------------------------------------------------
(* C8 *)

\* C8: after any sequence of calls every role of the static data is as the
\* static file declared it.
C8_StaticDataUnchanged ==
    \A id \in StaticObjects : heap[id] = declared[id]

----------------------------------------------------------------------------
(* C9 *)

\* some static role of the person spans the role's period
CoveredByStatic(role) ==
    \E s \in StaticRoleIds :
        /\ HasPeriod(heap[s])
        /\ Start(heap[s]) <= Start(role)
        /\ End(role) <= End(heap[s])

\* C9: when the person has static roles, a role of the argument with both
\* timestamps passes the period check if and only if some static role of the
\* person spans its period, whatever the bodies.
C9_PeriodOkIffCovered ==
    (status # "idle" /\ HavePrimaryRoles) =>
        \A i \in 1..Len(arg_ids) :
            HasPeriod(arg_before[i]) =>
                ((is_role_period_ok(heap, static_data, PersonName, now, arg_before[i]) = "True")
                 <=> CoveredByStatic(arg_before[i]))

----------------------------------------------------------------------------
(* C10 *)

\* C10: when the person has no static roles, the call returns, and a role
\* of the argument is in the output if and only if it has both timestamps
\* and start <= now <= end.
C10_CurrentRolesOnly ==
    (status # "idle" /\ ~HavePrimaryRoles) =>
        /\ Returned
        /\ Range(ret) \subseteq Range(arg_ids)
        /\ \A i \in 1..Len(arg_ids) :
              (arg_ids[i] \in Range(ret))
              <=> /\ HasPeriod(arg_before[i])
                  /\ Start(arg_before[i]) <= now
                  /\ now <= End(arg_before[i])

\* without static roles, one role with a period was kept and one was dropped
C10_Witness ==
    /\ status # "idle"
    /\ ~HavePrimaryRoles
    /\ \E i, j \in 1..Len(arg_ids) :
          /\ arg_ids[i] \in Range(ret)
          /\ HasPeriod(arg_before[j])
          /\ arg_ids[j] \notin Range(ret)

----------------------------------------------------------------------------
(* C11 *)

\* the role the (start, end)-ascending sequence of a's body puts right
\* after a
Successor(a) ==
    CHOOSE b \in LaterMembers(a) :
        \A c \in LaterMembers(a) \ {b} : c \in LaterMembers(b)

\* the argument's roles that pass the test on the current moment
CurrentOnEntry(role) ==
    HasPeriod(role) /\ Start(role) <= now /\ now <= End(role)

\* C11: for consecutive scraped Councilmember roles (prev, cur) of one body
\* in (start, end)-ascending order, prev ends at cur.start minus one day if
\* prev.end > cur.start and keeps its end otherwise (prev.end = cur.start
\* included); no role is removed, no start changes and no other role's
\* period changes.
C11_ConflictResolutionStep ==
    Returned =>
        /\ \A prev \in ScrapedCouncilmembers :
              IF LaterMembers(prev) = {}
              THEN heap[prev].end_datetime = Before(prev).end_datetime
              ELSE LET cur == Successor(prev)
                   IN  End(heap[prev]) =
                           IF End(Before(prev)) > Start(Before(cur))
                           THEN Start(Before(cur)) - Day
                           ELSE End(Before(prev))
        /\ \A id \in Range(ret) \cap Range(arg_ids) :
              heap[id].start_datetime = Before(id).start_datetime
        /\ \A id \in (Range(ret) \cap Range(arg_ids)) \ ScrapedCouncilmembers :
              heap[id].end_datetime = Before(id).end_datetime
        /\ ~HavePrimaryRoles =>
              \A i \in 1..Len(arg_ids) :
                  CurrentOnEntry(arg_before[i]) => arg_ids[i] \in Range(ret)

\* the end of a Councilmember role was moved and the role after it is in
\* the output as it was
C11_Witness ==
    /\ Returned
    /\ \E prev \in ScrapedCouncilmembers :
          /\ LaterMembers(prev) # {}
          /\ heap[prev].end_datetime # Before(prev).end_datetime
          /\ heap[Successor(prev)].end_datetime = Before(Successor(prev)).end_datetime

\* two Councilmember roles of one body that touch (prev.end = cur.start)
\* came out with their periods as they were
C11_TieWitness ==
    /\ Returned
    /\ \E prev \in ScrapedCouncilmembers :
          /\ LaterMembers(prev) # {}
          /\ End(Before(prev)) = Start(Before(Successor(prev)))
          /\ Start(Before(prev)) < End(Before(prev))
          /\ heap[prev].end_datetime = Before(prev).end_datetime

----------------------------------------------------------------------------
(* C12 *)

\* the role's body is not a primary body: no body, no body name, or a
\* simplified lower-cased name outside the primary-body names
NonPrimary(role) ==
    \/ role.body = None
    \/ Val(role.body).name = None
    \/ SimpleName(role) \notin primary_body_names(static_data)

\* the title text the rules read: simplified and lower-cased
TitleText(role) == lower(str_simplified(Val(role.title)))

\* some pattern of the list occurs in the text, whatever the case
MatchesSome(patterns, text) ==
    \E k \in 1..Len(patterns) : Contains(lower(text), lower(patterns[k]))

\* the ordered rules for a non-primary body: <<the rule applies, title>>
NonPrimaryRules(text, patterns) ==
    << <<Contains(text, <<"v","i","c","e">>), VICE_CHAIR>>,
       <<Contains(text, <<"a","l","t">>), ALTERNATE>>,
       <<Contains(text, <<"s","u","p","e","r">>), SUPERVISOR>>,
       <<MatchesSome(patterns, text), CHAIR>>,
       <<TRUE, MEMBER>> >>

\* the title of the first rule that applies
FirstMatch(rules) ==
    rules[CHOOSE i \in 1..Len(rules) :
              rules[i][1] /\ \A j \in 1..(i - 1) : ~rules[j][1]][2]

\* C12: a scraped role on a non-primary body gets the title of the first
\* rule that applies, in the order vice -> Vice Chair, alt -> Alternate,
\* super -> Supervisor, a chair pattern -> Chair, otherwise Member, read on
\* the simplified lower-cased title; no title gives Member.  For every title
\* and every list of chair patterns.
C12_FirstMatchWins ==
    Returned =>
        \A id \in ScrapedOutput :
            NonPrimary(heap[id]) =>
                heap[id].title =
                    Some(IF Before(id).title = None
                         THEN MEMBER
                         ELSE FirstMatch(NonPrimaryRules(TitleText(Before(id)), chair_arg)))

----------------------------------------------------------------------------
(* C13 *)

\* C13: no role of the output whose body is not a primary body (no body, no
\* body name, or a simplified lower-cased name outside the primary-body
\* names) is titled Councilmember or Council President.
C13_NoCouncilTitleOffPrimary ==
    Returned =>
        \A id \in Range(ret) :
            NonPrimary(heap[id]) =>
                /\ heap[id].title # Some(COUNCILMEMBER)
                /\ heap[id].title # Some(COUNCILPRESIDENT)

----------------------------------------------------------------------------
(* C14 *)

\* C14: the call does not fail; with no council-president pattern every
\* scraped role of a primary body is titled Councilmember, and with no chair
\* pattern a scraped role of a non-primary body whose title has none of
\* vice, alt, super is titled Member.
C14_EmptyPatternsNeverMatch ==
    status # "idle" =>
        /\ Returned
        /\ council_pres_arg = <<>> =>
              \A id \in ScrapedOutput :
                  ~NonPrimary(heap[id]) => heap[id].title = Some(COUNCILMEMBER)
        /\ chair_arg = <<>> =>
              \A id \in ScrapedOutput :
                  (/\ NonPrimary(heap[id])
                   /\ Before(id).title # None
                   /\ ~Contains(TitleText(Before(id)), <<"v","i","c","e">>)
                   /\ ~Contains(TitleText(Before(id)), <<"a","l","t">>)
                   /\ ~Contains(TitleText(Before(id)), <<"s","u","p","e","r">>))
                  => heap[id].title = Some(MEMBER)

----------------------------------------------------------------------------
(* C15 *)

\* C15: no call raises an exception, whichever of title, body, body name,
\* start_datetime and end_datetime the scraped roles and the static roles
\* lack: every call returns a list.
C15_NeverRaises ==
    status # "raised"

----------------------------------------------------------------------------
(* C17 *)

\* a role's period does not end before it starts
WellFormed(role) == HasPeriod(role) => Start(role) <= End(role)

\* C17: if every role of the argument and every static role has
\* start <= end on entry, every role of the output has start <= end, the
\* roles whose end was moved included.
C17_WellFormedTenures ==
    (/\ Returned
     /\ \A i \in 1..Len(arg_ids) : WellFormed(arg_before[i])
     /\ \A id \in StaticRoleIds : WellFormed(declared[id]))
    => \A id \in Range(ret) : WellFormed(heap[id])

----------------------------------------------------------------------------
(* C16 *)

\* C16: during one events query each body id and each person id causes at
\* most one request sequence, a failed lookup included (it is cached as None
\* and not asked again), and a lookup of the query returns nothing that was
\* fetched before the query began: during an earlier events query or
\* between two queries.
C16_LookupCache ==
    in_events =>
        /\ \A body_id \in BodyIds : body_requests[body_id] <= 1
        /\ \A person_id \in PersonIds : person_requests[person_id] <= 1
        /\ last_lookup # None => Val(last_lookup).fetched_in = {events_calls}

\* in a later events query a lookup was answered from the cache, with the
\* None of a failed request of that query
C16_Witness ==
    /\ in_events
    /\ events_calls = MaxQueries
    /\ last_lookup # None
    /\ Val(last_lookup).cached
    /\ Val(last_lookup).json = None
    /\ Val(last_lookup).fetched_in = {events_calls}

====
